---- MODULE Spec2Model ----
(***************************************************************************)
(* Model of src/API/streamlit_app.py: extract_audio_metadata and           *)
(* process_audio_file.  Each request r is one invocation of                *)
(* process_audio_file(uploaded_file); requests interleave at statement     *)
(* granularity and share only the filesystem.  Library calls whose code is *)
(* outside the repository (tempfile, soundfile, librosa, infa_deepfake,    *)
(* shutil) are the environment: where they can fail or return a value the  *)
(* source does not determine, the outcome is a nondeterministic choice.    *)
(*                                                                         *)
(* Amplitudes are fixed point integers (Amp holds even values so that the  *)
(* mean of two channels is exact).  A float that may be NaN is a record    *)
(* [nan, v].  A duration is the fraction [num, den] in seconds.  A path is *)
(* the sequence of its components below "/".                               *)
(***************************************************************************)
EXTENDS Integers, Sequences, FiniteSets, TLC

\* ---------------------------------------------------------------- bounds
MaxFrames == 2

Req == {1, 2}
DirNames == {"tmpA", "tmpB"}
Amp == {0 - 2, 0, 2}
NativeRates == {8000, 16000, 32000}
PitchVals == {120}
EnergyVals == {5}

\* ------------------------------------------------------------ constants
target_sr == 16000

\* ------------------------------------------------------------ data types
NaN == [nan |-> TRUE, v |-> 0]
Float(x) == [nan |-> FALSE, v |-> x]

NoSignal == [ndim |-> 0, dtype |-> "none", v |-> <<>>]
NoInfo == [samples |-> 0 - 1, sr |-> 0 - 1, duration |-> [num |-> 0, den |-> 1],
           avg_pitch |-> NaN, avg_energy |-> NaN, waveform |-> NoSignal]

\* np.array([]): one-dimensional, empty, float64
EmptyArray == [ndim |-> 1, dtype |-> "float64", v |-> <<>>]

\* variant: the fallback record claims the target rate
DefaultInfo_Mutant ==
  [samples |-> 0, sr |-> 16000, duration |-> [num |-> 0, den |-> 1],
   avg_pitch |-> NaN, avg_energy |-> NaN, waveform |-> EmptyArray]

\* the dict literal of the except branch of process_audio_file
DefaultInfo == [samples |-> 0, sr |-> 0, duration |-> [num |-> 0, den |-> 1],
                avg_pitch |-> NaN, avg_energy |-> NaN, waveform |-> EmptyArray]

\* ------------------------------------------------------------ file bytes
\* An audio file: native rate, channel count, frames (one tuple of channel
\* values per frame).  Garbage stands for bytes no decoder accepts.
Garbage == [ok |-> FALSE, sr |-> 0, nch |-> 0, frames |-> <<>>]

FramesOf(nch, len) == [1..len -> [1..nch -> Amp]]

AudioFiles ==
  UNION { UNION { { [ok |-> TRUE, sr |-> s, nch |-> c, frames |-> f] :
                      f \in UNION { FramesOf(c, n) : n \in 0..MaxFrames } }
                  : c \in {1, 2} } : s \in NativeRates }

\* the subset used when two requests run concurrently
FewAudioFiles ==
  { a \in AudioFiles :
      /\ a.sr = 8000
      /\ a.nch = 2
      /\ Len(a.frames) = 1
      /\ \A i \in 1..Len(a.frames) : \A c \in 1..a.nch : a.frames[i][c] = 2 * (c - 1) }

\* display names: a plain file name, an absolute name, a name with a
\* parent-directory component, a name inside a sub-directory that does
\* not exist
PlainName  == [abs |-> FALSE, comps |-> <<"clip.wav">>]
AbsName    == [abs |-> TRUE,  comps |-> <<"tmp", "clip.wav">>]
DotDotName == [abs |-> FALSE, comps |-> <<"..", "clip.wav">>]
SubName    == [abs |-> FALSE, comps |-> <<"sub", "clip.wav">>]
Names == {PlainName, AbsName, DotDotName, SubName}
FewNames == {PlainName, AbsName, DotDotName}

\* ------------------------------------------------------------ paths
TmpRoot == <<"tmp">>

\* os.path.join(a, b) on POSIX: an absolute b discards a
os_path_join(a, b) == IF b.abs THEN b.comps ELSE a \o b.comps

\* the file the operating system resolves a path to ("..": parent)
RECURSIVE Resolve(_, _)
Resolve(done, rest) ==
  IF rest = <<>> THEN done
  ELSE IF Head(rest) = ".."
       THEN Resolve(IF done = <<>> THEN <<>> ELSE SubSeq(done, 1, Len(done) - 1),
                    Tail(rest))
       ELSE Resolve(Append(done, Head(rest)), Tail(rest))

RealPath(p) == Resolve(<<>>, p)

Parent(p) == SubSeq(p, 1, Len(p) - 1)

\* p lies inside directory d
Inside(d, p) == /\ Len(p) > Len(d)
                /\ SubSeq(p, 1, Len(d)) = d

\* ------------------------------------------------------------ signal math
RECURSIVE SumSeq(_)
SumSeq(s) == IF s = <<>> THEN 0 ELSE Head(s) + SumSeq(Tail(s))

\* sf.read(filepath, always_2d=False): float64; one channel gives a 1-D array
sf_read(file) ==
  IF file.nch = 1
  THEN [ndim |-> 1, dtype |-> "float64",
        v |-> [i \in 1..Len(file.frames) |-> file.frames[i][1]]]
  ELSE [ndim |-> 2, dtype |-> "float64", v |-> file.frames]

\* variant: the down-mix keeps the first channel
np_mean_axis1_Mutant(y) ==
  [ndim |-> 1, dtype |-> "float64",
   v |-> [i \in 1..Len(y.v) |-> y.v[i][1]]]

\* np.mean(y, axis=1): one value per frame, the mean over the channels
np_mean_axis1(y) ==
  [ndim |-> 1, dtype |-> "float64",
   v |-> [i \in 1..Len(y.v) |-> SumSeq(y.v[i]) \div Len(y.v[i])]]

\* lines 28-29
ToMono(y) == IF y.ndim > 1 THEN np_mean_axis1(y) ELSE y

\* line 32
ToFloat32(y) == [y EXCEPT !.dtype = "float32"]

\* librosa.resample(fix=True): ceil(n * target / orig) samples
ResampledLen(n, orig) == (n * target_sr + orig - 1) \div orig

\* librosa.resample(y, orig_sr, target_sr): a deterministic function of y.
\* Its length is the library's; the interpolated values are not what the
\* program depends on and are stood in for by the nearest earlier sample
\* (silence stays silence).
librosa_resample(y, orig) ==
  [ndim |-> 1, dtype |-> "float32",
   v |-> [i \in 1..ResampledLen(Len(y.v), orig) |->
            y.v[((i - 1) * orig) \div target_sr + 1]]]

\* librosa.get_duration(y=y, sr=sr)
get_duration(y, s) == [num |-> Len(y.v), den |-> s]

\* variant: the sample count is taken from the array's rank
InfoRecord_Mutant(y, s, d, p, e) ==
  [samples |-> y.ndim, sr |-> s, duration |-> d,
   avg_pitch |-> p, avg_energy |-> e, waveform |-> y]

\* lines 55-62
InfoRecord(y, s, d, p, e) ==
  [samples |-> Len(y.v), sr |-> s, duration |-> d,
   avg_pitch |-> p, avg_energy |-> e, waveform |-> y]


\* the classifier's possible return values (status 1: verdict, else failure)
ClassifierResults ==
  { [status |-> 1, message |-> "Fake voice detected"],
    [status |-> 0, message |-> "inference error"] }

NoVerdict == [status |-> 0 - 1, message |-> ""]
NoResult == [status |-> 0 - 1, message |-> "", info |-> NoInfo]
NoOutcome == [kind |-> "none", v |-> 0]

\* ------------------------------------------------------------ state
VARIABLES
  pc,              \* position of each invocation of process_audio_file
  uploaded_file,   \* the argument: [name, bytes]
  temp_dir,        \* line 76
  temp_file_path,  \* line 77
  data,            \* line 81
  y, sr,           \* locals of extract_audio_metadata
  duration, avg_pitch, avg_energy,
  audio_info,      \* lines 88 / 91
  verdict,         \* status, message of line 100
  pending,         \* exception in flight inside the try block
  result,          \* the tuple returned at line 105
  exc,             \* the exception that left process_audio_file
  fs_dirs,         \* temporary directories that exist: [path, by]
  fs_files,        \* files that exist: real path -> [bytes, by]
  stages,          \* history: stages the invocation went through
  calls,           \* history: arguments infa_deepfake was called with
  decoded,         \* history: what sf.read returned: [y, sr]
  resampled,       \* history: librosa.resample was called
  yin_out,         \* history: outcome of librosa.yin
  rms_out,         \* history: outcome of librosa.feature.rms
  x_raised,        \* history: the call of extract_audio_metadata that raised
  rm_failed        \* history: shutil.rmtree could not remove the directory

vars == <<pc, uploaded_file, temp_dir, temp_file_path, data, y, sr, duration,
          avg_pitch, avg_energy, audio_info, verdict, pending, result, exc,
          fs_dirs, fs_files, stages, calls, decoded, resampled, yin_out,
          rms_out, x_raised, rm_failed>>

locals == <<y, sr, duration, avg_pitch, avg_energy>>
xhist == <<decoded, resampled, yin_out, rms_out, x_raised>>
fs == <<fs_dirs, fs_files>>

InitWith(uploads) ==
  /\ uploaded_file \in uploads
  /\ pc = [r \in Req |-> "start"]
  /\ temp_dir = [r \in Req |-> <<>>]
  /\ temp_file_path = [r \in Req |-> <<>>]
  /\ data = [r \in Req |-> Garbage]
  /\ y = [r \in Req |-> NoSignal]
  /\ sr = [r \in Req |-> 0]
  /\ duration = [r \in Req |-> [num |-> 0, den |-> 1]]
  /\ avg_pitch = [r \in Req |-> NaN]
  /\ avg_energy = [r \in Req |-> NaN]
  /\ audio_info = [r \in Req |-> NoInfo]
  /\ verdict = [r \in Req |-> NoVerdict]
  /\ pending = [r \in Req |-> "none"]
  /\ result = [r \in Req |-> NoResult]
  /\ exc = [r \in Req |-> "none"]
  /\ fs_dirs = {}
  /\ fs_files = <<>>
  /\ stages = [r \in Req |-> <<>>]
  /\ calls = [r \in Req |-> <<>>]
  /\ decoded = [r \in Req |-> [y |-> NoSignal, sr |-> 0]]
  /\ resampled = [r \in Req |-> FALSE]
  /\ yin_out = [r \in Req |-> NoOutcome]
  /\ rms_out = [r \in Req |-> NoOutcome]
  /\ x_raised = [r \in Req |-> "none"]
  /\ rm_failed = [r \in Req |-> FALSE]

\* ------------------------------------------------------------ filesystem
FileExists(p) == RealPath(p) \in DOMAIN fs_files

DirExists(d) == d = TmpRoot \/ \E e \in fs_dirs : e.path = d

WriteFile(p, bytes, r) ==
  [q \in DOMAIN fs_files \cup {RealPath(p)} |->
     IF q = RealPath(p) THEN [bytes |-> bytes, by |-> r] ELSE fs_files[q]]

\* shutil.rmtree(d): the directory and everything below it
RemoveTree(d) ==
  [q \in {p \in DOMAIN fs_files : ~Inside(d, p)} |-> fs_files[q]]


\* ------------------------------------------------------------ control flow
\* variant: no finally clause, the exception leaves at once
OnRaise_Mutant(e) == [pc |-> "raised", pending |-> e, exc |-> e]

\* an exception raised inside the try block (lines 80-100) runs the finally
\* clause before it propagates
OnRaise(e) == [pc |-> "finally", pending |-> e, exc |-> "none"]

\* an exception raised before the try block (lines 76-78) leaves at once
OnRaiseOutsideTry(e) == [pc |-> "raised", pending |-> "none", exc |-> e]

Raise(r, how) ==
  /\ pc' = [pc EXCEPT ![r] = how.pc]
  /\ pending' = [pending EXCEPT ![r] = how.pending]
  /\ exc' = [exc EXCEPT ![r] = how.exc]

Goto(r, l) ==
  /\ pc' = [pc EXCEPT ![r] = l]
  /\ UNCHANGED <<pending, exc>>

Stage(r, s) == stages' = [stages EXCEPT ![r] = Append(@, s)]

\* variant: only higher rates are resampled
NeedsResample_Mutant(s) == s > target_sr

\* line 36
NeedsResample(s) == s # target_sr

\* variant: one try block around both estimates
OnYinError_Mutant == [avg_pitch |-> NaN, pc |-> "xreturn"]

\* lines 46-47: the handler of the pitch estimate
OnYinError == [avg_pitch |-> NaN, pc |-> "rms"]

\* lines 52-53: the handler of the energy estimate
OnRmsError == [avg_energy |-> NaN, pc |-> "xreturn"]

\* ------------------------------------------------------------ process_audio_file
\* line 76: tempfile.mkdtemp() creates a directory that did not exist
Mkdtemp(r) ==
  /\ pc[r] = "start"
  /\ \/ /\ Raise(r, OnRaiseOutsideTry("mkdtemp"))
        /\ UNCHANGED <<temp_dir, fs_dirs>>
     \/ \E d \in DirNames :
          /\ ~DirExists(Append(TmpRoot, d))
          /\ temp_dir' = [temp_dir EXCEPT ![r] = Append(TmpRoot, d)]
          /\ fs_dirs' = fs_dirs \cup {[path |-> Append(TmpRoot, d), by |-> r]}
          /\ Goto(r, "join")
  /\ UNCHANGED <<uploaded_file, temp_file_path, data, locals, audio_info,
                 verdict, result, fs_files, stages, calls, xhist, rm_failed>>

\* lines 77-78: the staged path; print raises when stdout cannot take the text
BuildPath(r) ==
  /\ pc[r] = "join"
  /\ temp_file_path' = [temp_file_path EXCEPT ![r] =
                          os_path_join(temp_dir[r], uploaded_file[r].name)]
  /\ \/ Goto(r, "read")
     \/ Raise(r, OnRaiseOutsideTry("print"))
  /\ UNCHANGED <<uploaded_file, temp_dir, data, locals, audio_info, verdict,
                 result, fs, stages, calls, xhist, rm_failed>>

\* line 81
ReadUpload(r) ==
  /\ pc[r] = "read"
  /\ \/ /\ data' = [data EXCEPT ![r] = uploaded_file[r].bytes]
        /\ Goto(r, "open")
     \/ /\ Raise(r, OnRaise("read"))
        /\ UNCHANGED data
  /\ UNCHANGED <<uploaded_file, temp_dir, temp_file_path, locals, audio_info,
                 verdict, result, fs, stages, calls, xhist, rm_failed>>

\* lines 83-84: open(temp_file_path, "wb") needs the parent directory
WriteStaged(r) ==
  /\ pc[r] = "open"
  /\ \/ /\ DirExists(Parent(RealPath(temp_file_path[r])))
        /\ fs_files' = WriteFile(temp_file_path[r], data[r], r)
        /\ Stage(r, "Staged")
        /\ Goto(r, "sf_read")
     \/ /\ Raise(r, OnRaise("open"))
        /\ UNCHANGED <<fs_files, stages>>
  /\ UNCHANGED <<uploaded_file, temp_dir, temp_file_path, data, locals,
                 audio_info, verdict, result, fs_dirs, calls, xhist, rm_failed>>

\* line 88 -> line 25: sf.read decodes the file at the staged path
SfRead(r) ==
  /\ pc[r] = "sf_read"
  /\ IF FileExists(temp_file_path[r])
        /\ fs_files[RealPath(temp_file_path[r])].bytes.ok
     THEN LET file == fs_files[RealPath(temp_file_path[r])].bytes IN
          /\ y' = [y EXCEPT ![r] = sf_read(file)]
          /\ sr' = [sr EXCEPT ![r] = file.sr]
          /\ decoded' = [decoded EXCEPT ![r] = [y |-> sf_read(file), sr |-> file.sr]]
          /\ pc' = [pc EXCEPT ![r] = "mono"]
          /\ UNCHANGED x_raised
     ELSE /\ x_raised' = [x_raised EXCEPT ![r] = "sf.read"]
          /\ pc' = [pc EXCEPT ![r] = "except"]
          /\ UNCHANGED <<y, sr, decoded>>
  /\ UNCHANGED <<uploaded_file, temp_dir, temp_file_path, data, duration,
                 avg_pitch, avg_energy, audio_info, verdict, pending, result,
                 exc, fs, stages, calls, resampled, yin_out, rms_out, rm_failed>>

\* lines 28-32
Mono(r) ==
  /\ pc[r] = "mono"
  /\ y' = [y EXCEPT ![r] = ToFloat32(ToMono(y[r]))]
  /\ pc' = [pc EXCEPT ![r] = "resample"]
  /\ UNCHANGED <<uploaded_file, temp_dir, temp_file_path, data, sr, duration,
                 avg_pitch, avg_energy, audio_info, verdict, pending, result,
                 exc, fs, stages, calls, xhist, rm_failed>>

\* lines 35-38: librosa.resample is outside every try of the function
Resample(r) ==
  /\ pc[r] = "resample"
  /\ IF NeedsResample(sr[r])
     THEN /\ resampled' = [resampled EXCEPT ![r] = TRUE]
          /\ \/ /\ y' = [y EXCEPT ![r] = librosa_resample(y[r], sr[r])]
                /\ sr' = [sr EXCEPT ![r] = target_sr]
                /\ pc' = [pc EXCEPT ![r] = "duration"]
                /\ UNCHANGED x_raised
             \/ /\ x_raised' = [x_raised EXCEPT ![r] = "resample"]
                /\ pc' = [pc EXCEPT ![r] = "except"]
                /\ UNCHANGED <<y, sr>>
     ELSE /\ pc' = [pc EXCEPT ![r] = "duration"]
          /\ UNCHANGED <<y, sr, resampled, x_raised>>
  /\ UNCHANGED <<uploaded_file, temp_dir, temp_file_path, data, duration,
                 avg_pitch, avg_energy, audio_info, verdict, pending, result,
                 exc, fs, stages, calls, decoded, yin_out, rms_out, rm_failed>>

\* line 40
Duration(r) ==
  /\ pc[r] = "duration"
  /\ duration' = [duration EXCEPT ![r] = get_duration(y[r], sr[r])]
  /\ pc' = [pc EXCEPT ![r] = "yin"]
  /\ UNCHANGED <<uploaded_file, temp_dir, temp_file_path, data, y, sr,
                 avg_pitch, avg_energy, audio_info, verdict, pending, result,
                 exc, fs, stages, calls, xhist, rm_failed>>

\* lines 43-47
Yin(r) ==
  /\ pc[r] = "yin"
  /\ \/ \E p \in {Float(v) : v \in PitchVals} :
          /\ avg_pitch' = [avg_pitch EXCEPT ![r] = p]
          /\ yin_out' = [yin_out EXCEPT ![r] = [kind |-> "ok", v |-> p.v]]
          /\ pc' = [pc EXCEPT ![r] = "rms"]
     \/ /\ avg_pitch' = [avg_pitch EXCEPT ![r] = OnYinError.avg_pitch]
        /\ yin_out' = [yin_out EXCEPT ![r] = [kind |-> "raise", v |-> 0]]
        /\ pc' = [pc EXCEPT ![r] = OnYinError.pc]
  /\ UNCHANGED <<uploaded_file, temp_dir, temp_file_path, data, y, sr,
                 duration, avg_energy, audio_info, verdict, pending, result,
                 exc, fs, stages, calls, decoded, resampled, rms_out,
                 x_raised, rm_failed>>

\* lines 49-53
Rms(r) ==
  /\ pc[r] = "rms"
  /\ \/ \E e \in {Float(v) : v \in EnergyVals} :
          /\ avg_energy' = [avg_energy EXCEPT ![r] = e]
          /\ rms_out' = [rms_out EXCEPT ![r] = [kind |-> "ok", v |-> e.v]]
          /\ pc' = [pc EXCEPT ![r] = "xreturn"]
     \/ /\ avg_energy' = [avg_energy EXCEPT ![r] = OnRmsError.avg_energy]
        /\ rms_out' = [rms_out EXCEPT ![r] = [kind |-> "raise", v |-> 0]]
        /\ pc' = [pc EXCEPT ![r] = OnRmsError.pc]
  /\ UNCHANGED <<uploaded_file, temp_dir, temp_file_path, data, y, sr,
                 duration, avg_pitch, audio_info, verdict, pending, result,
                 exc, fs, stages, calls, decoded, resampled, yin_out,
                 x_raised, rm_failed>>

\* lines 55-62 -> line 88
XReturn(r) ==
  /\ pc[r] = "xreturn"
  /\ audio_info' = [audio_info EXCEPT ![r] =
                      InfoRecord(y[r], sr[r], duration[r], avg_pitch[r],
                                 avg_energy[r])]
  /\ Stage(r, "Extracted")
  /\ pc' = [pc EXCEPT ![r] = "classify"]
  /\ UNCHANGED <<uploaded_file, temp_dir, temp_file_path, data, locals,
                 verdict, pending, result, exc, fs, calls, xhist, rm_failed>>

\* lines 89-98
MetadataFailed(r) ==
  /\ pc[r] = "except"
  /\ audio_info' = [audio_info EXCEPT ![r] = DefaultInfo]
  /\ Stage(r, "Extracted")
  /\ pc' = [pc EXCEPT ![r] = "classify"]
  /\ UNCHANGED <<uploaded_file, temp_dir, temp_file_path, data, locals,
                 verdict, pending, result, exc, fs, calls, xhist, rm_failed>>

\* line 100
Classify(r) ==
  /\ pc[r] = "classify"
  /\ calls' = [calls EXCEPT ![r] = Append(@, temp_file_path[r])]
  /\ Stage(r, "Classified")
  /\ \/ \E c \in ClassifierResults :
          /\ verdict' = [verdict EXCEPT ![r] = c]
          /\ Raise(r, [pc |-> "finally", pending |-> "none", exc |-> "none"])
     \/ /\ Raise(r, OnRaise("classifier"))
        /\ UNCHANGED verdict
  /\ UNCHANGED <<uploaded_file, temp_dir, temp_file_path, data, locals,
                 audio_info, result, fs, xhist, rm_failed>>

\* lines 102-105: rmtree(ignore_errors=True) swallows its own failure; then
\* the pending exception propagates or the tuple is returned
Finally(r) ==
  /\ pc[r] = "finally"
  /\ \/ /\ fs_dirs' = {e \in fs_dirs : e.path # temp_dir[r]}
        /\ fs_files' = RemoveTree(temp_dir[r])
        /\ UNCHANGED rm_failed
     \/ /\ rm_failed' = [rm_failed EXCEPT ![r] = TRUE]
        /\ UNCHANGED fs
  /\ Stage(r, "Cleaned")
  /\ IF pending[r] # "none"
     THEN /\ pc' = [pc EXCEPT ![r] = "raised"]
          /\ exc' = [exc EXCEPT ![r] = pending[r]]
          /\ UNCHANGED result
     ELSE /\ pc' = [pc EXCEPT ![r] = "returned"]
          /\ result' = [result EXCEPT ![r] =
                          [status |-> verdict[r].status,
                           message |-> verdict[r].message,
                           info |-> audio_info[r]]]
          /\ UNCHANGED exc
  /\ UNCHANGED <<uploaded_file, temp_dir, temp_file_path, data, locals,
                 audio_info, verdict, pending, calls, xhist>>

Step(r) ==
  \/ Mkdtemp(r)
  \/ BuildPath(r)
  \/ ReadUpload(r)
  \/ WriteStaged(r)
  \/ SfRead(r)
  \/ Mono(r)
  \/ Resample(r)
  \/ Duration(r)
  \/ Yin(r)
  \/ Rms(r)
  \/ XReturn(r)
  \/ MetadataFailed(r)
  \/ Classify(r)
  \/ Finally(r)

\* ------------------------------------------------------------ specifications
Uploads(names, files) == [name : names, bytes : files]

\* two concurrent requests, a few inputs
Init == InitWith([Req -> Uploads(FewNames, FewAudioFiles \cup {Garbage})])
Next == \E r \in Req : Step(r)
Spec == Init /\ [][Next]_vars

\* one request, every input
InitOne ==
  InitWith({ u \in [Req -> Uploads(Names, AudioFiles \cup {Garbage})] :
               \A r \in Req \ {1} : u[r] = [name |-> PlainName, bytes |-> Garbage] })
NextOne == Step(1)
SpecOne == InitOne /\ [][NextOne]_vars


\* ------------------------------------------------------------ properties
Done(r) == pc[r] \in {"returned", "raised"}

Last(s) == s[Len(s)]

Has(s, x) == \E i \in 1..Len(s) : s[i] = x

\* the directory invocation r created still exists
OwnDirExists(r) == [path |-> temp_dir[r], by |-> r] \in fs_dirs

\* extract_audio_metadata returned a record to invocation r
Extracted(r) == x_raised[r] = "none" /\ Has(stages[r], "Extracted")

\* C1: once an invocation of process_audio_file has returned or raised,
\* whatever the outcome of its steps (building the staged path, reading,
\* writing, decoding, classifying), the directory it created is gone.
C1_CleanupGuarantee ==
  \A r \in Req : (Done(r) /\ temp_dir[r] # <<>>) => ~OwnDirExists(r)

C3_ClassifierFailureIsAResult ==
  \A r \in Req :
    (Done(r) /\ calls[r] # <<>> /\ (pending[r] = "classifier" \/ verdict[r].status # 1)) =>
      /\ pc[r] = "returned"
      /\ result[r].status = 0
      /\ (Extracted(r) => /\ result[r].info = audio_info[r]
                          /\ result[r].info.sr = 16000)

StageRank(s) == CASE s = "Staged" -> 1
                  [] s = "Extracted" -> 2
                  [] s = "Classified" -> 3
                  [] s = "Cleaned" -> 4

Overlap(a, b) ==
  /\ a # b
  /\ ~Done(a) /\ ~Done(b)
  /\ temp_file_path[a] # <<>> /\ temp_file_path[b] # <<>>

\* C5: two overlapping invocations, whatever their display names, have
\* distinct staged files, and every file an invocation writes and every
\* path it hands to the classifier lies inside its own temporary directory.
C5_StorageIsolation ==
  /\ \A a, b \in Req :
       Overlap(a, b) => RealPath(temp_file_path[a]) # RealPath(temp_file_path[b])
  /\ \A p \in DOMAIN fs_files : Inside(temp_dir[fs_files[p].by], p)
  /\ \A r \in Req : \A i \in 1..Len(calls[r]) :
       Inside(temp_dir[r], RealPath(calls[r][i]))

\* sf.read returned a signal to invocation r
Decoded(r) == decoded[r].y.ndim > 0

\* C6: for every file that decodes, extract_audio_metadata does not raise
\* (no failure of resampling or of a metric escapes it) and the record it
\* returns has all six fields.
C6_DescriptorTotality ==
  \A r \in Req : Decoded(r) =>
    /\ x_raised[r] = "none"
    /\ pc[r] # "except"
    /\ (Has(stages[r], "Extracted") =>
          DOMAIN audio_info[r] =
            {"samples", "sr", "duration", "avg_pitch", "avg_energy", "waveform"})

\* the value a metric field takes for an outcome of its estimator
FieldOf(out) == IF out.kind = "ok" THEN Float(out.v) ELSE NaN

\* the fields of the record that do not belong to either metric, computed
\* from what was decoded
CanonicalLen(r) ==
  IF decoded[r].sr = 16000 THEN Len(decoded[r].y.v)
  ELSE (Len(decoded[r].y.v) * 16000 + decoded[r].sr - 1) \div decoded[r].sr

SignalFieldsIntact(r) ==
  /\ audio_info[r].samples = CanonicalLen(r)
  /\ audio_info[r].sr = 16000
  /\ audio_info[r].duration = [num |-> CanonicalLen(r), den |-> 16000]
  /\ audio_info[r].waveform = y[r]
  /\ Len(audio_info[r].waveform.v) = CanonicalLen(r)

\* C7: when the pitch estimator fails, avg_pitch is NaN and samples, sr,
\* duration, avg_energy and waveform are what they are when it succeeds:
\* the energy estimate still ran and its outcome is in avg_energy; and the
\* same with pitch and energy exchanged.
C7_PerMetricIsolation ==
  \A r \in Req : Extracted(r) =>
    /\ (yin_out[r].kind = "raise" =>
          /\ audio_info[r].avg_pitch = NaN
          /\ rms_out[r].kind # "none"
          /\ audio_info[r].avg_energy = FieldOf(rms_out[r])
          /\ SignalFieldsIntact(r))
    /\ (rms_out[r].kind = "raise" =>
          /\ audio_info[r].avg_energy = NaN
          /\ yin_out[r].kind # "none"
          /\ audio_info[r].avg_pitch = FieldOf(yin_out[r])
          /\ SignalFieldsIntact(r))

C7_Witness ==
  \E r \in Req : /\ Extracted(r)
                 /\ yin_out[r].kind = "raise"
                 /\ rms_out[r].kind = "ok"
                 /\ audio_info[r].avg_energy = Float(5)
                 /\ audio_info[r].samples > 0

\* C8: every record extract_audio_metadata returns has sr = 16000, and its
\* samples, duration and waveform are those of the signal at 16000 Hz;
\* the resampler is called exactly when the native rate is not 16000.
C8_SampleRateInvariant ==
  \A r \in Req :
    /\ (pc[r] \in {"duration", "yin", "rms", "xreturn"} =>
          (resampled[r] <=> decoded[r].sr # 16000))
    /\ (Extracted(r) =>
          /\ audio_info[r].sr = 16000
          /\ (resampled[r] <=> decoded[r].sr # 16000)
          /\ audio_info[r].samples = CanonicalLen(r)
          /\ Len(audio_info[r].waveform.v) = CanonicalLen(r)
          /\ audio_info[r].duration.num * 16000
               = CanonicalLen(r) * audio_info[r].duration.den)

C8_Witness ==
  \E r \in Req : /\ Extracted(r)
                 /\ decoded[r].sr = 8000
                 /\ Len(decoded[r].y.v) = 2
                 /\ audio_info[r].samples = 4
                 /\ audio_info[r].sr = 16000

\* C9: after the down-mix and before resampling the signal has one channel
\* and as many frames as were decoded; for a multi-channel input each sample
\* is the mean of the channels of its frame, and a single-channel input
\* keeps its samples.
C9_MonoInvariant ==
  \A r \in Req : pc[r] = "resample" =>
    /\ y[r].ndim = 1
    /\ Len(y[r].v) = Len(decoded[r].y.v)
    /\ (decoded[r].y.ndim > 1 =>
          \A i \in 1..Len(y[r].v) :
            y[r].v[i] * Len(decoded[r].y.v[i]) = SumSeq(decoded[r].y.v[i]))
    /\ (decoded[r].y.ndim = 1 => y[r].v = decoded[r].y.v)

C9_Witness ==
  \E r \in Req : /\ pc[r] = "resample"
                 /\ decoded[r].y.ndim = 2
                 /\ Len(y[r].v) = 2
                 /\ decoded[r].y.v[1] = <<2, 0>>
                 /\ y[r].v[1] = 1

\* C10: when removing the directory fails, an earlier exception is the one
\* that reaches the caller and otherwise the caller gets the result; and
\* the removal is attempted even when an earlier step has failed.
C10_ReleaseNeverMasks ==
  \A r \in Req :
    /\ (Done(r) /\ rm_failed[r]) =>
          /\ (pending[r] # "none" => pc[r] = "raised" /\ exc[r] = pending[r])
          /\ (pending[r] = "none" =>
                /\ pc[r] = "returned"
                /\ result[r] = [status |-> verdict[r].status,
                                message |-> verdict[r].message,
                                info |-> audio_info[r]])
    /\ (pc[r] = "raised" /\ temp_dir[r] # <<>>) => Has(stages[r], "Cleaned")

\* the two shapes of a descriptor record
DefaultShape(i) ==
  /\ i.samples = 0
  /\ i.sr = 0
  /\ i.duration.num = 0
  /\ i.avg_pitch.nan
  /\ i.avg_energy.nan
  /\ i.waveform.v = <<>>

ExtractedShape(i) ==
  /\ i.sr = 16000
  /\ i.samples = Len(i.waveform.v)

\* C11: every descriptor record process_audio_file returns is either the
\* default record (0, 0, 0.0, NaN, NaN, empty) or an extracted record with
\* sr = 16000 and samples = len(waveform), never both and never a mixture;
\* it is the default one exactly when extract_audio_metadata raised.
C11_RecordShapes ==
  \A r \in Req : pc[r] = "returned" =>
    /\ DefaultShape(result[r].info) # ExtractedShape(result[r].info)
    /\ (result[r].info.sr = 0 => result[r].info.waveform.v = <<>>)
    /\ (DefaultShape(result[r].info) <=> x_raised[r] # "none")

C11_Witness ==
  \E r \in Req : /\ pc[r] = "returned"
                 /\ result[r].info.sr = 16000
                 /\ result[r].info.samples = 4
                 /\ Len(result[r].info.waveform.v) = 4
                 /\ ~DefaultShape(result[r].info)

====
